---- MODULE Spec2Model ----
(***************************************************************************)
(* jitsi-keycloak: the OpenID-Connect handshake of src/main.rs.            *)
(*                                                                         *)
(* GET /room/:name   (room)      creates a Session in the shared Store,    *)
(*                               sets the SESSION cookie, redirects.       *)
(* GET /callback     (callback)  removes the Session named by the cookie,  *)
(*                               validates the provider's answer and       *)
(*                               mints the Jitsi token.                    *)
(*                                                                         *)
(* Requests run concurrently; a handler is cut into one action per         *)
(* stretch of code between two awaits (store.write().await,                *)
(* request_async(..).await).                                               *)
(*                                                                         *)
(* Rust values: Option is a sequence of length <= 1 (None == <<>>),        *)
(* Result is a record [ok, val].                                           *)
(***************************************************************************)
EXTENDS Integers, Sequences, FiniteSets, Bags, TLC

\* Bound of the model: the room requests served in one behaviour.
MaxSessions == 2

None == <<>>
Some(x) == <<x>>
IsSome(o) == Len(o) = 1
Unwrap(o) == o[1]
Ok(v) == [ok |-> TRUE, val |-> <<v>>]
Err == [ok |-> FALSE, val |-> <<>>]

\* The callback handlers that run concurrently. Each serves any number of
\* requests, one after the other.
Reqs == {"a", "b"}

\* ------------------------------------------------------------------------
\* Values drawn by the random generators. The k-th room request draws the
\* k-th value of each generator: v4 uuids, csrf tokens, nonces and PKCE
\* verifiers are fresh (122 bits and more of entropy), and a client cannot
\* present a value that has not been handed out yet. Index 0 is a value no
\* generator ever hands out (a forged or stale one).
Uuid(k) == <<"uuid", k>>
CsrfToken(k) == <<"csrf", k>>
Nonce(k) == <<"nonce", k>>
PkceVerifier(k) == <<"pkce", k>>

COOKIE_NAME == "SESSION"

\* Room names: Path<String> is one percent-decoded path segment, so a name
\* may hold any character, '/' included.
Rooms == {"standup", "//evil.example", "https://["}

\* The rooms asked for while the handlers run concurrently.
RoomSamples == {"standup", "//evil.example"}

\* struct Session
Session(room, csrf_token, nonce, pkce_verifier) ==
  [room |-> room, csrf_token |-> csrf_token, nonce |-> nonce,
   pkce_verifier |-> pkce_verifier]

\* ------------------------------------------------------------------------
\* The SESSION cookie. A cookie value is a string; the model keeps of it the
\* textual form and the uuid it spells. Uuid::to_string writes the
\* hyphenated form; Uuid::parse_str reads the hyphenated and the simple
\* (32 hex digits) form alike and fails on anything else.
UuidToString(u) == <<"hyphenated", u>>

UuidParseStr(s) ==
  IF s[1] \in {"hyphenated", "simple"} THEN Ok(s[2]) ELSE Err

\* cookies.get(COOKIE_NAME): the cookie header is a map from names to values.
CookiesGet(cookies, name) ==
  IF name \in DOMAIN cookies THEN Some(cookies[name]) ELSE None

\* The cookie header a browser sends back after `room` set `value`, and one
\* that holds another cookie only.
CookieHeader(value) == [n \in {COOKIE_NAME} |-> value]
OtherCookies == [n \in {"theme"} |-> <<"text", "dark">>]

\* TypedHeader(cookies): TypedHeader<headers::Cookie> (line 155). `header` is
\* the request's Cookie header, None when the request has none; axum then
\* rejects the request and the handler's body does not run.
TypedHeaderCookie(header) ==
  IF header = None THEN Err ELSE Ok(Unwrap(header))

\* ------------------------------------------------------------------------
\* HashMap<Uuid, Session>
HashMapInsert(map, k, v) ==
  [x \in DOMAIN map \cup {k} |-> IF x = k THEN v ELSE map[x]]

\* remove(&k) -> Option<V>: [ret, map]
HashMapRemovePeek(map, k) ==
  [ret |-> IF k \in DOMAIN map THEN Some(map[k]) ELSE None, map |-> map]

\* (variant: get_mut and take, the emptied record stays in the map)
HashMapRemoveTake(map, k) ==
  [ret |-> IF k \in DOMAIN map THEN Some(map[k]) ELSE None,
   map |-> [x \in DOMAIN map |->
              IF x = k THEN Session("", CsrfToken(0), Nonce(0),
                                    PkceVerifier(0))
                       ELSE map[x]]]

HashMapRemove(map, k) ==
  [ret |-> IF k \in DOMAIN map THEN Some(map[k]) ELSE None,
   map |-> [x \in DOMAIN map \ {k} |-> map[x]]]

\* ------------------------------------------------------------------------
\* Configuration (crate::cfg::Cfg, read from the environment).
Cfg ==
  [jitsi_url |-> [host |-> "meet.example", path |-> <<>>, query |-> <<>>],
   jitsi_sub |-> "meet.example",
   jitsi_secret |-> "jitsi-secret"]

\* (variant: the base itself, the room not joined)
UrlJoinBase(base, input) == Ok(base)

\* Url::join(input): `input` is resolved as a reference against the base.
\* A plain segment replaces the last segment of the base path (the base here
\* is the root directory); "//host" is a scheme-relative reference and
\* replaces the host; an absolute URL with a malformed host does not parse.
UrlJoin(base, input) ==
  CASE input = "//evil.example" ->
         Ok([host |-> "evil.example", path |-> <<>>, query |-> <<>>])
    [] input = "https://[" -> Err
    [] OTHER ->
         Ok([host |-> base.host,
             path |-> SubSeq(base.path, 1, Len(base.path) - 1) \o <<input>>,
             query |-> <<>>])

\* url.query_pairs_mut().append_pair(k, v)
AppendPair(url, k, v) == [url EXCEPT !.query = @ \o <<(<<k, v>>)>>]

\* ------------------------------------------------------------------------
\* time::OffsetDateTime (UTC) as seconds since the epoch plus nanoseconds.
NanosPerSec == 1000000000
SecondsPerDay == 86400

Instants == {[secs |-> 1000000, nanos |-> 0],
             [secs |-> 1000001, nanos |-> NanosPerSec - 1]}

\* Duration::days(n)
DurationDays(n) == [secs |-> n * SecondsPerDay, nanos |-> 0]

\* OffsetDateTime + Duration
DateAdd(date, dur) ==
  [secs |-> date.secs + dur.secs + ((date.nanos + dur.nanos) \div NanosPerSec),
   nanos |-> (date.nanos + dur.nanos) % NanosPerSec]

\* OffsetDateTime::unix_timestamp(): whole seconds
UnixTimestamp(date) == date.secs

\* jwt_numeric_date::serialize: serializer.serialize_i64(date.unix_timestamp())
JwtNumericDateSerializeMillis(date) ==
  date.secs * 1000 + (date.nanos \div 1000000)

JwtNumericDateSerialize(date) == UnixTimestamp(date)

\* create_jitsi_jwt. `now` is what OffsetDateTime::now_utc() returns and
\* `encodes` whether jsonwebtoken::encode succeeds; both belong to the
\* environment. The token is kept as its header, its serialized claims and
\* the key it is signed with.
CreateJitsiJwt(uid, email, name, avatar, aud, iss, sub, room, secret, now, encodes) ==
  LET iat == now
      exp == DateAdd(iat, DurationDays(1))
      user == [avatar |-> avatar, name |-> name, email |-> email, id |-> uid]
      context == [user |-> user, group |-> None]
      claims == [context |-> context, aud |-> aud, iss |-> iss, sub |-> sub,
                 room |-> room,
                 iat |-> JwtNumericDateSerialize(iat),
                 exp |-> JwtNumericDateSerialize(exp)]
  IN IF encodes
       THEN Ok([header |-> "HS256", claims |-> claims, key |-> secret])
       ELSE Err

\* ------------------------------------------------------------------------
\* The identity provider's answer to the code exchange, as the openidconnect
\* client hands it to the handler.
\*   response = [access_token, id_token : Option<IdToken>]
\*   IdToken  = [alg, sig_valid, nonce, claims]
\*   claims   = [at_hash : Option, preferred_username : Option, sub,
\*               email : Option, name : Option]
HeaderAlgs == {"RS256", "none", "RSA-OAEP"}
AccessTokens == {"at-1", "at-2"}

\* id_token.signing_alg(): the header's alg, when it is a signing algorithm
SigningAlg(id_token) ==
  IF id_token.alg \in {"RS256", "none"} THEN Ok(id_token.alg) ELSE Err

\* AccessTokenHash::from_token: the left half of the digest the algorithm
\* names; "none" names no digest.
AccessTokenHashFromToken(access_token, alg) ==
  IF alg = "RS256" THEN Ok(<<"sha256-left-half", access_token>>) ELSE Err

\* id_token.claims(&verifier, &nonce): the claims, once the signature (with
\* issuer, audience and expiry) and the nonce are verified
IdTokenClaimsAnyNonce(id_token, nonce) ==
  IF id_token.sig_valid THEN Ok(id_token.claims) ELSE Err

IdTokenClaims(id_token, nonce) ==
  IF id_token.sig_valid /\ id_token.nonce = nonce
    THEN Ok(id_token.claims) ELSE Err

UserClaims ==
  [at_hash : {None, Some(<<"sha256-left-half", "at-1">>)},
   preferred_username : {None, Some("alice")},
   sub : {"sub-7"},
   email : {Some("alice@example.org")},
   name : {Some("Alice A.")}]

IdTokens(nonces) ==
  [alg : HeaderAlgs, sig_valid : BOOLEAN, nonce : nonces, claims : UserClaims]

TokenResponses(nonces) ==
  [access_token : AccessTokens,
   id_token : {None} \cup {Some(t) : t \in IdTokens(nonces)}]

\* What request_async(..).await returns
ExchangeResults(nonces) == {Err} \cup {Ok(t) : t \in TokenResponses(nonces)}

\* ------------------------------------------------------------------------
\* What a handler returns: Err(AppError), Ok(Redirect::to(url)), or nothing
\* at all when it panics (kind "Panic").
AppError(kind) == [kind |-> kind, location |-> None]
RedirectTo(url) == [kind |-> "Redirect", location |-> Some(url)]
Panic == [kind |-> "Panic", location |-> None]
TypedHeaderRejection == [kind |-> "TypedHeaderRejection", location |-> None]

\* let uid = match claims.preferred_username() { .. } (lines 212-215)
ResolveUidSubject(claims) == claims.sub

ResolveUid(claims) ==
  IF claims.preferred_username # None
    THEN Unwrap(claims.preferred_username)
    ELSE claims.sub

\* The `room` argument callback passes to create_jitsi_jwt (line 225)
RoomArgument(session) == "*"

\* if &actual_access_token_hash != expected_access_token_hash (line 206)
AccessTokenHashNeSkipped(actual, expected) == FALSE

AccessTokenHashNe(actual, expected) == actual # expected

\* callback, from the answer of the code exchange to the return (lines
\* 179-237). No await lies in this stretch. `steps` lists the checks that
\* ran, in order.
CallbackFinish(exchange, session, config, now, encodes) ==
  IF ~exchange.ok
    THEN [result |-> AppError("InvalidCode"), steps |-> <<>>]
  ELSE LET response == Unwrap(exchange.val) IN
  IF response.id_token = None
    THEN [result |-> AppError("MissingIdToken"), steps |-> <<"id_token">>]
  ELSE LET id_token == Unwrap(response.id_token)
           verified == IdTokenClaims(id_token, session.nonce) IN
  IF ~verified.ok
    THEN [result |-> AppError("InvalidIdTokenNonce"),
          steps |-> <<"id_token", "claims">>]
  ELSE LET claims == Unwrap(verified.val) IN
  IF claims.at_hash = None
    THEN [result |-> AppError("MissingAccessTokenHash"),
          steps |-> <<"id_token", "claims", "at_hash">>]
  ELSE LET expected_access_token_hash == Unwrap(claims.at_hash)
           algorithm == SigningAlg(id_token) IN
  IF ~algorithm.ok
    THEN [result |-> AppError("UnsupportedSigningAlgorithm"),
          steps |-> <<"id_token", "claims", "at_hash", "signing_alg">>]
  ELSE LET actual_access_token_hash ==
             AccessTokenHashFromToken(response.access_token,
                                      Unwrap(algorithm.val)) IN
  IF ~actual_access_token_hash.ok
    THEN [result |-> AppError("UnsupportedSigningAlgorithm"),
          steps |-> <<"id_token", "claims", "at_hash", "signing_alg",
                      "from_token">>]
  ELSE IF AccessTokenHashNe(Unwrap(actual_access_token_hash.val),
                            expected_access_token_hash)
    THEN [result |-> AppError("InvalidAccessToken"),
          steps |-> <<"id_token", "claims", "at_hash", "signing_alg",
                      "from_token", "compare">>]
  ELSE LET uid == ResolveUid(claims)
           jwt == CreateJitsiJwt(uid, claims.email, claims.name, None,
                                 "jitsi", "jitsi", config.jitsi_sub,
                                 RoomArgument(session),
                                 config.jitsi_secret, now, encodes) IN
  IF ~jwt.ok
    THEN [result |-> AppError("InternalServerError"),
          steps |-> <<"id_token", "claims", "at_hash", "signing_alg",
                      "from_token", "compare", "uid", "mint">>]
  ELSE LET url == UrlJoin(config.jitsi_url, session.room) IN
  IF ~url.ok
    THEN [result |-> Panic,
          steps |-> <<"id_token", "claims", "at_hash", "signing_alg",
                      "from_token", "compare", "uid", "mint", "join">>]
    ELSE [result |-> RedirectTo(AppendPair(Unwrap(url.val), "jwt",
                                           Unwrap(jwt.val))),
          steps |-> <<"id_token", "claims", "at_hash", "signing_alg",
                      "from_token", "compare", "uid", "mint", "join">>]

\* The environment's part in create_jitsi_jwt: the clock's reading and
\* whether the encoder succeeds. A run of the chain that stops before
\* line 217 consults neither.
MintInputs(exchange, session) ==
  LET probe == CallbackFinish(exchange, session, Cfg,
                              [secs |-> 0, nanos |-> 0], TRUE)
  IN IF "mint" \in {probe.steps[i] : i \in DOMAIN probe.steps}
       THEN [now : Instants, encodes : BOOLEAN]
       ELSE {[now |-> [secs |-> 0, nanos |-> 0], encodes |-> TRUE]}

\* ------------------------------------------------------------------------
\* State.
VARIABLES
  store,      \* Store: HashMap<Uuid, Session> behind the RwLock
  lock,       \* the RwLock's write guard: None, or Some(r) held by callback r
  created,    \* number of room requests served (draws of the generators)
  jar,        \* the SESSION cookie values handed out by `room`
  flows,      \* history: per issued uuid, the room its flow was started for
  req,        \* the callback request each handler is serving
  exchanges,  \* the code exchanges submitted to the provider (a bag)
  served,     \* history: the issued uuids that a callback which has
              \* returned carried in its cookie
  delivered   \* history: what the step just taken received from the
              \* provider and the environment (None if nothing, or if not
              \* recorded)

vars == <<store, lock, created, jar, flows, req, exchanges, served, delivered>>

\* A handler's request and locals. The Cookie header is not read again after
\* line 160: `cookies` keeps it (Some(header), header an Option) only when
\* it yields no session_id. `steps`
\* lists the checks that ran; `prior` tells whether, when the request
\* arrived, a callback carrying the same issued uuid had already returned.
Idle ==
  [pc |-> "idle", cookies |-> None, session_id |-> None,
   state |-> CsrfToken(0), code |-> "", session |-> None, result |-> None,
   steps |-> <<>>, prior |-> FALSE]

Init ==
  /\ store = [u \in {} |-> Idle]
  /\ lock = None
  /\ created = 0
  /\ jar = {}
  /\ flows = [u \in {} |-> ""]
  /\ req = [r \in Reqs |-> Idle]
  /\ exchanges = EmptyBag
  /\ served = {}
  /\ delivered = None

\* let session_id = match cookies.get(COOKIE_NAME).map(Uuid::parse_str)
\* (line 160), as a Result: Err for the two failing arms.
ParseSessionId(cookies) ==
  LET got == CookiesGet(cookies, COOKIE_NAME)
  IN IF IsSome(got) THEN UuidParseStr(Unwrap(got)) ELSE Err

\* Handler r's session_id, once the cookie is known to parse.
SessionId(r) == Unwrap(req[r].session_id)

\* ------------------------------------------------------------------------
\* room (lines 109-144). The write guard of line 127 is taken and dropped
\* within the statement, so the handler is one step, taken when the lock is
\* free.
\* (variant: the cookie goes out and the record is not in the store)
\* (variant: the insert sweeps the older records out of the store)
RoomSweeping(room) ==
  /\ created < MaxSessions
  /\ lock = None
  /\ store' = [u \in {Uuid(created + 1)} |->
                 Session(room, CsrfToken(created + 1), Nonce(created + 1),
                         PkceVerifier(created + 1))]
  /\ created' = created + 1
  /\ jar' = jar \cup {UuidToString(Uuid(created + 1))}
  /\ flows' = [u \in DOMAIN flows \cup {Uuid(created + 1)} |->
                 IF u = Uuid(created + 1) THEN room ELSE flows[u]]
  /\ delivered' = None
  /\ UNCHANGED <<lock, req, exchanges, served>>

RoomCookieOnly(room) ==
  /\ created < MaxSessions
  /\ store' = store
  /\ created' = created + 1
  /\ jar' = jar \cup {UuidToString(Uuid(created + 1))}
  /\ flows' = [u \in DOMAIN flows \cup {Uuid(created + 1)} |->
                 IF u = Uuid(created + 1) THEN room ELSE flows[u]]
  /\ delivered' = None
  /\ UNCHANGED <<lock, req, exchanges, served>>

Room(room) ==
  /\ created < MaxSessions
  /\ lock = None
  /\ LET k == created + 1
         csrf_token == CsrfToken(k)
         nonce == Nonce(k)
         pkce_verifier == PkceVerifier(k)
         session_id == Uuid(k)
     IN /\ store' = HashMapInsert(store, session_id,
                       Session(room, csrf_token, nonce, pkce_verifier))
        /\ created' = k
        /\ jar' = jar \cup {UuidToString(session_id)}
        /\ flows' = [u \in DOMAIN flows \cup {session_id} |->
                       IF u = session_id THEN room ELSE flows[u]]
  /\ delivered' = None
  /\ UNCHANGED <<lock, req, exchanges, served>>

\* ------------------------------------------------------------------------
\* callback (lines 153-238)

\* The return of callback r with `result`, after the checks `steps`.
Return(r, result, steps) ==
  /\ req' = [req EXCEPT ![r].pc = "done", ![r].result = Some(result),
                        ![r].steps = @ \o steps]
  /\ served' = IF UuidToString(SessionId(r)) \in jar
                 THEN served \cup {SessionId(r)} ELSE served

\* What a client can send: no Cookie header, one without the SESSION
\* cookie, a cookie it was given (as given, or respelled), a malformed one,
\* a well-formed one the service never issued; as `state` a csrf token
\* handed out so far or a made-up one.
CookieInputs ==
  {OtherCookies} \cup
  {CookieHeader(v) : v \in jar \cup {<<"simple", c[2]>> : c \in jar}
                             \cup {<<"malformed", Uuid(0)>>,
                                   UuidToString(Uuid(0))}}
HeaderInputs == {None} \cup {Some(cookies) : cookies \in CookieInputs}
StateInputs == {CsrfToken(k) : k \in 0..created}
CodeInputs == {"code-1"}

\* Lines 153-164: the request arrives, the extractors run and the cookie is
\* read.
CallbackStart(r) ==
  /\ req[r].pc = "idle"
  /\ \E header \in HeaderInputs, state \in StateInputs, code \in CodeInputs :
       LET extracted == TypedHeaderCookie(header)
           arrived == [Idle EXCEPT !.state = state, !.code = code]
       IN IF ~extracted.ok
            THEN req' = [req EXCEPT ![r] =
                   [arrived EXCEPT !.pc = "done", !.cookies = Some(header),
                      !.result = Some(TypedHeaderRejection)]]
          ELSE LET session_id == ParseSessionId(Unwrap(extracted.val)) IN
          IF session_id.ok
            THEN req' = [req EXCEPT ![r] =
                   [arrived EXCEPT !.pc = "lock", !.steps = <<"cookie">>,
                      !.session_id = session_id.val,
                      !.prior = Unwrap(session_id.val) \in served]]
            ELSE req' = [req EXCEPT ![r] =
                   [arrived EXCEPT !.pc = "done", !.steps = <<"cookie">>,
                      !.cookies = Some(header),
                      !.result = Some(AppError("InvalidSession"))]]
  /\ delivered' = None
  /\ UNCHANGED <<store, lock, created, jar, flows, exchanges, served>>

\* Line 166: store.write().await
CallbackLock(r) ==
  /\ req[r].pc = "lock"
  /\ lock = None
  /\ lock' = Some(r)
  /\ req' = [req EXCEPT ![r].pc = "locked"]
  /\ delivered' = None
  /\ UNCHANGED <<store, created, jar, flows, exchanges, served>>

\* (variant: the record is looked up with .get(&session_id).cloned())
CallbackRemoveGet(r) ==
  /\ req[r].pc = "locked"
  /\ lock = Some(r)
  /\ IF SessionId(r) \in DOMAIN store
       THEN /\ req' = [req EXCEPT ![r].pc = "removed",
                                  ![r].session = Some(store[SessionId(r)]),
                                  ![r].steps = @ \o <<"consume">>]
            /\ served' = served
       ELSE Return(r, AppError("InvalidSession"), <<"consume">>)
  /\ lock' = None
  /\ delivered' = None
  /\ UNCHANGED <<store, created, jar, flows, exchanges>>

\* (variant: the guard is bound to a local and lives on after the statement)
CallbackRemoveHolding(r) ==
  /\ req[r].pc = "locked"
  /\ lock = Some(r)
  /\ LET removed == HashMapRemove(store, SessionId(r)) IN
       /\ store' = removed.map
       /\ IF IsSome(removed.ret)
            THEN /\ req' = [req EXCEPT ![r].pc = "removed",
                                       ![r].session = removed.ret,
                                       ![r].steps = @ \o <<"consume">>]
                 /\ served' = served
                 /\ lock' = lock
            ELSE /\ Return(r, AppError("InvalidSession"), <<"consume">>)
                 /\ lock' = None
  /\ delivered' = None
  /\ UNCHANGED <<created, jar, flows, exchanges>>

\* Lines 166-169: .remove(&session_id), the match, and the guard's drop at
\* the end of the statement.
CallbackRemove(r) ==
  /\ req[r].pc = "locked"
  /\ lock = Some(r)
  /\ LET removed == HashMapRemove(store, SessionId(r)) IN
       /\ store' = removed.map
       /\ IF IsSome(removed.ret)
            THEN /\ req' = [req EXCEPT ![r].pc = "removed",
                                       ![r].session = removed.ret,
                                       ![r].steps = @ \o <<"consume">>]
                 /\ served' = served
            ELSE Return(r, AppError("InvalidSession"), <<"consume">>)
  /\ lock' = None
  /\ delivered' = None
  /\ UNCHANGED <<created, jar, flows, exchanges>>

\* if &callback.state != session.csrf_token.secret() (line 171)
StateDiffersInverted(callback_state, session) ==
  callback_state = session.csrf_token

StateDiffers(callback_state, session) ==
  callback_state # session.csrf_token

\* Lines 171-178: the state comparison, then the code exchange is sent.
CallbackCheckState(r) ==
  /\ req[r].pc = "removed"
  /\ LET session == Unwrap(req[r].session) IN
       IF StateDiffers(req[r].state, session)
         THEN /\ Return(r, AppError("InvalidState"), <<"state">>)
              /\ exchanges' = exchanges
         ELSE /\ req' = [req EXCEPT ![r].pc = "exchange",
                                    ![r].steps = @ \o <<"state", "exchange">>]
              /\ exchanges' = exchanges (+) SetToBag({
                    [code |-> req[r].code,
                     pkce_verifier |-> session.pkce_verifier]})
              /\ served' = served
  /\ delivered' = None
  /\ UNCHANGED <<store, lock, created, jar, flows>>

\* (variant: a rejected exchange is sent once more before giving up)
CallbackExchangedWithResend(r, exchange, env) ==
  /\ req[r].pc = "exchange"
  /\ LET fin == CallbackFinish(exchange, Unwrap(req[r].session), Cfg,
                               env.now, env.encodes)
     IN /\ Return(r, fin.result, fin.steps)
        /\ exchanges' =
             IF fin.result.kind = "InvalidCode"
               THEN exchanges (+) SetToBag({
                      [code |-> req[r].code,
                       pkce_verifier |->
                         Unwrap(req[r].session).pkce_verifier]})
               ELSE exchanges
  /\ UNCHANGED <<store, lock, created, jar, flows>>

\* (variant: a rejected exchange puts the session back for a retry)
CallbackExchangedWithRetry(r, exchange, env) ==
  /\ req[r].pc = "exchange"
  /\ LET fin == CallbackFinish(exchange, Unwrap(req[r].session), Cfg,
                               env.now, env.encodes)
     IN /\ Return(r, fin.result, fin.steps)
        /\ store' = IF fin.result.kind = "InvalidCode"
                      THEN HashMapInsert(store, SessionId(r),
                                         Unwrap(req[r].session))
                      ELSE store
  /\ UNCHANGED <<lock, created, jar, flows, exchanges>>

\* Lines 178-237: the provider's answer `exchange` arrives; the rest of the
\* handler, with the clock and the encoder as `env`.
CallbackExchangedWith(r, exchange, env) ==
  /\ req[r].pc = "exchange"
  /\ LET fin == CallbackFinish(exchange, Unwrap(req[r].session), Cfg,
                               env.now, env.encodes)
     IN Return(r, fin.result, fin.steps)
  /\ UNCHANGED <<store, lock, created, jar, flows, exchanges>>

\* The answers the provider can give: the nonce of its identity token is one
\* handed out so far, or a made-up one.
ExchangeInputs == ExchangeResults({Nonce(k) : k \in 0..created})

\* A sample of them: the answer that is in order for each nonce, and that
\* answer with one part changed.
ExchangeSamples ==
  LET good(k) ==
        [access_token |-> "at-1",
         id_token |-> Some(
           [alg |-> "RS256", sig_valid |-> TRUE, nonce |-> Nonce(k),
            claims |-> [at_hash |-> Some(<<"sha256-left-half", "at-1">>),
                        preferred_username |-> Some("alice"),
                        sub |-> "sub-7",
                        email |-> Some("alice@example.org"),
                        name |-> Some("Alice A.")]])]
      token(k) == Unwrap(good(k).id_token)
      variants(k) ==
        {good(k),
         [good(k) EXCEPT !.access_token = "at-2"],
         [good(k) EXCEPT !.id_token = None],
         [good(k) EXCEPT !.id_token = Some([token(k) EXCEPT !.sig_valid = FALSE])],
         [good(k) EXCEPT !.id_token = Some([token(k) EXCEPT !.alg = "none"])],
         [good(k) EXCEPT !.id_token = Some([token(k) EXCEPT !.alg = "RSA-OAEP"])],
         [good(k) EXCEPT !.id_token =
            Some([token(k) EXCEPT !.claims.at_hash = None])],
         [good(k) EXCEPT !.id_token =
            Some([token(k) EXCEPT !.claims.preferred_username = None])]}
  IN {Err} \cup {Ok(t) : t \in UNION {variants(k) : k \in 0..created}}

\* Spec draws the provider's answer from the sample.
CallbackExchanged(r) ==
  /\ req[r].pc = "exchange"
  /\ \E exchange \in ExchangeSamples :
       \E env \in MintInputs(exchange, Unwrap(req[r].session)) :
         CallbackExchangedWith(r, exchange, env)
  /\ delivered' = None

\* SpecChain draws it from all of them and records it in `delivered` beside
\* the return it led to.
CallbackExchangedRecorded(r) ==
  /\ req[r].pc = "exchange"
  /\ \E exchange \in ExchangeInputs :
       \E env \in MintInputs(exchange, Unwrap(req[r].session)) :
         /\ CallbackExchangedWith(r, exchange, env)
         /\ delivered' = Some([to |-> r, exchange |-> exchange,
                               env |-> env])

\* The response is written and the request is over.
Respond(r) ==
  /\ req[r].pc = "done"
  /\ req' = [req EXCEPT ![r] = Idle]
  /\ delivered' = None
  /\ UNCHANGED <<store, lock, created, jar, flows, exchanges, served>>

\* ------------------------------------------------------------------------
\* Spec: the service with its handlers running concurrently.
Next ==
  \/ \E room \in RoomSamples : Room(room)
  \/ \E r \in Reqs : CallbackStart(r)
  \/ \E r \in Reqs : CallbackLock(r)
  \/ \E r \in Reqs : CallbackRemove(r)
  \/ \E r \in Reqs : CallbackCheckState(r)
  \/ \E r \in Reqs : CallbackExchanged(r)
  \/ \E r \in Reqs : Respond(r)

Spec == Init /\ [][Next]_vars

\* SpecChain: the same service with one handler at work and every answer
\* the provider can give.
NextChain ==
  \/ \E room \in Rooms : Room(room)
  \/ CallbackStart("a")
  \/ CallbackLock("a")
  \/ CallbackRemove("a")
  \/ CallbackCheckState("a")
  \/ CallbackExchangedRecorded("a")
  \/ Respond("a")

SpecChain == Init /\ [][NextChain]_vars

\* ------------------------------------------------------------------------
\* Properties.
Done(r) == req[r].pc = "done"
Kind(r) == Unwrap(req[r].result).kind
Issued(u) == UuidToString(u) \in jar
Ran(r, step) == step \in {req[r].steps[i] : i \in DOMAIN req[r].steps}

\* C1. A Pending Attempt is consumed at most once: once a callback carrying
\* an issued uuid has returned (whatever it returned), the record is gone
\* from the store, and every callback that arrives afterwards with a cookie
\* spelling that uuid, whatever its query, finds no record and returns
\* InvalidSession.
C1_ConsumedAtMostOnce ==
  /\ \A u \in served : u \notin DOMAIN store
  /\ \A r \in Reqs :
       req[r].prior =>
         /\ req[r].session = None
         /\ Done(r) => Kind(r) = "InvalidSession"

C1_Witness ==
  \E r \in Reqs :
    /\ Done(r) /\ req[r].prior /\ Ran(r, "consume")
    /\ Kind(r) = "InvalidSession"
    /\ req[r].state = CsrfToken(SessionId(r)[2])

\* Of the callbacks in flight that carry the same uuid, at most one holds
\* the record and at most one has succeeded; once one holds the record,
\* every other that has done its lookup has returned InvalidSession.
AtMostOneHolder ==
  \A r1, r2 \in Reqs :
    (r1 # r2 /\ IsSome(req[r1].session_id)
             /\ req[r1].session_id = req[r2].session_id) =>
      /\ ~(IsSome(req[r1].session) /\ IsSome(req[r2].session))
      /\ ~(Done(r1) /\ Done(r2) /\ Kind(r1) = "Redirect"
                                /\ Kind(r2) = "Redirect")
      /\ (IsSome(req[r1].session) /\ Ran(r2, "consume")) =>
            (Done(r2) /\ Kind(r2) = "InvalidSession")

\* C2. However the steps of concurrent callbacks carrying the same uuid
\* interleave, they never both obtain the record and never both succeed.
\* The first of them to do its lookup while the record is in the store
\* obtains it and takes it out of the store in the same step; one that does
\* its lookup after that observes absence and returns InvalidSession.
C2_NeverBothSucceed ==
  [][/\ AtMostOneHolder'
     /\ \A r \in Reqs :
          (req[r].pc = "locked" /\ req'[r].pc # "locked") =>
            IF SessionId(r) \in DOMAIN store
              THEN /\ req'[r].session = Some(store[SessionId(r)])
                   /\ SessionId(r) \notin DOMAIN store'
              ELSE /\ req'[r].session = None
                   /\ req'[r].pc = "done"
                   /\ Unwrap(req'[r].result).kind = "InvalidSession"
                   /\ store' = store]_vars

C2_Witness ==
  \E r1, r2 \in Reqs :
    /\ r1 # r2
    /\ req[r1].session_id = req[r2].session_id
    /\ ~req[r1].prior /\ ~req[r2].prior
    /\ req[r1].state = req[r2].state
    /\ Done(r1) /\ Kind(r1) = "Redirect"
    /\ Done(r2) /\ Kind(r2) = "InvalidSession"

\* The redirect a successful callback returned, and the token in its query.
Location(r) == Unwrap(Unwrap(req[r].result).location)
Jwt(r) == Location(r).query[1][2]

\* Room names that are one plain path segment.
PlainNames == {"standup"}

C4_InvalidStateAfterConsume ==
  \A r \in Reqs :
    /\ IsSome(req[r].session) => SessionId(r) \notin DOMAIN store
    /\ (IsSome(req[r].session) /\ req[r].pc # "removed") =>
         ((req[r].state # Unwrap(req[r].session).csrf_token)
            <=> (Done(r) /\ Kind(r) = "InvalidState"))
    /\ (Done(r) /\ Kind(r) = "InvalidState") =>
         /\ IsSome(req[r].session)
         /\ ~Ran(r, "exchange")

C4_Witness ==
  \E r \in Reqs :
    /\ Done(r) /\ Kind(r) = "InvalidState"
    /\ Issued(SessionId(r))
    /\ req[r].state # Unwrap(req[r].session).csrf_token
    /\ SessionId(r) \notin DOMAIN store

\* C5. A callback returns InvalidCode exactly when the code exchange was the
\* last thing it did: it then carried the cookie of a record and the
\* matching state, the record is gone from the store, and every other
\* callback with that cookie that arrived after a return (a retry) finds no
\* record and returns InvalidSession.
C5_InvalidCodeNoRetry ==
  \A r \in Reqs :
    /\ Done(r) =>
         ((Kind(r) = "InvalidCode")
            <=> (req[r].steps = <<"cookie", "consume", "state", "exchange">>))
    /\ (Done(r) /\ Kind(r) = "InvalidCode") =>
         /\ IsSome(req[r].session)
         /\ req[r].state = Unwrap(req[r].session).csrf_token
         /\ SessionId(r) \notin DOMAIN store
         /\ \A q \in Reqs \ {r} :
              (req[q].session_id = req[r].session_id /\ req[q].prior) =>
                /\ req[q].session = None
                /\ Done(q) => Kind(q) = "InvalidSession"

C5_Witness ==
  \E r, q \in Reqs :
    /\ r # q
    /\ Done(r) /\ Kind(r) = "InvalidCode"
    /\ req[q].session_id = req[r].session_id /\ req[q].prior
    /\ req[q].state = req[r].state
    /\ Done(q) /\ Kind(q) = "InvalidSession"

\* A request's Cookie header carries no session cookie: there is no header,
\* or none named SESSION in it, or its value is not a uuid.
NoSessionCookie(header) ==
  \/ header = None
  \/ COOKIE_NAME \notin DOMAIN Unwrap(header)
  \/ Unwrap(header)[COOKIE_NAME][1] \notin {"hyphenated", "simple"}

\* C6. A callback request that carries no session cookie (absent, or not a
\* uuid) returns InvalidSession in the step in which it arrives: nothing is
\* sent to the provider, and the store and its lock are left as they are.
C6_NoCookieInvalidSession ==
  [][\A r \in Reqs :
       (/\ req[r].pc = "idle"
        /\ req'[r].pc # "idle"
        /\ IsSome(req'[r].cookies)
        /\ NoSessionCookie(Unwrap(req'[r].cookies))) =>
           /\ req'[r].pc = "done"
           /\ req'[r].result = Some(AppError("InvalidSession"))
           /\ exchanges' = exchanges
           /\ store' = store
           /\ lock' = lock]_vars

\* What the handler that has just returned received from the provider: the
\* answer, its identity token and that token's claims, where they exist.
Got == Unwrap(delivered)
GotResponse == Unwrap(Got.exchange.val)
GotIdToken == Unwrap(GotResponse.id_token)
GotClaims == GotIdToken.claims
GotSession == Unwrap(req[Got.to].session)
HasIdToken == Got.exchange.ok /\ GotResponse.id_token # None
Verifies ==
  /\ HasIdToken
  /\ GotIdToken.sig_valid
  /\ GotIdToken.nonce = GotSession.nonce

\* The hash of an access token under RS256, the one algorithm of HeaderAlgs
\* that names a digest.
HashOf(access_token) == <<"sha256-left-half", access_token>>

\* C7. A callback returns the redirect only if the verified identity token
\* carries an access-token hash equal to the hash of the access token of
\* the same answer. A verified token without the claim gives
\* MissingAccessTokenHash; a verified token whose claim differs from the
\* hash of the access token gives InvalidAccessToken.
C7_AccessTokenHash ==
  IsSome(delivered) =>
    /\ Kind(Got.to) = "Redirect" =>
         /\ Verifies
         /\ GotClaims.at_hash = Some(HashOf(GotResponse.access_token))
    /\ (Verifies /\ GotClaims.at_hash = None) =>
         Kind(Got.to) = "MissingAccessTokenHash"
    /\ (/\ Verifies
        /\ GotClaims.at_hash # None
        /\ GotIdToken.alg = "RS256"
        /\ Unwrap(GotClaims.at_hash) # HashOf(GotResponse.access_token)) =>
         Kind(Got.to) = "InvalidAccessToken"

C7_Witness ==
  /\ IsSome(delivered)
  /\ Verifies
  /\ GotIdToken.alg = "RS256"
  /\ GotClaims.at_hash = Some(HashOf("at-1"))
  /\ GotResponse.access_token = "at-2"
  /\ Kind(Got.to) = "InvalidAccessToken"

\* C8. The minted token's context.user.id is the preferred-username claim
\* of the validated identity token when the claim is present, and the
\* subject claim when it is not.
C8_ResolvedIdentifier ==
  (IsSome(delivered) /\ Kind(Got.to) = "Redirect") =>
    LET id == Jwt(Got.to).claims.context.user.id IN
    /\ GotClaims.preferred_username # None =>
         id = Unwrap(GotClaims.preferred_username)
    /\ GotClaims.preferred_username = None => id = GotClaims.sub

C8_Witness ==
  /\ IsSome(delivered)
  /\ Kind(Got.to) = "Redirect"
  /\ GotClaims.preferred_username = Some("alice")
  /\ GotClaims.sub = "sub-7"
  /\ Jwt(Got.to).claims.context.user.id = "alice"

ErrorOfStep ==
  <<"InvalidSession", "InvalidSession", "InvalidState", "InvalidCode",
    "MissingIdToken", "InvalidIdTokenNonce", "MissingAccessTokenHash",
    "UnsupportedSigningAlgorithm", "InvalidAccessToken">>

ChecksOfStep ==
  <<(<<"cookie">>), (<<"consume">>), (<<"state">>), (<<"exchange">>),
    (<<"id_token">>), (<<"claims">>), (<<"at_hash">>),
    (<<"signing_alg", "from_token">>), (<<"compare">>)>>

RECURSIVE ChecksUpTo(_)
ChecksUpTo(i) == IF i = 0 THEN <<>> ELSE ChecksUpTo(i - 1) \o ChecksOfStep[i]

IsPrefix(s, t) == Len(s) <= Len(t) /\ s = SubSeq(t, 1, Len(s))

\* The steps from the code exchange on that the answer `exchange` fails,
\* each judged on its own; what is missing fails every step that needs it.
FailingSteps(exchange, session) ==
  LET response == Unwrap(exchange.val)
      no_token == ~exchange.ok \/ response.id_token = None
      id_token == Unwrap(response.id_token)
      no_hash == no_token \/ id_token.claims.at_hash = None
  IN {i \in 4..9 :
        \/ i = 4 /\ ~exchange.ok
        \/ i = 5 /\ no_token
        \/ i = 6 /\ (no_token \/ ~id_token.sig_valid
                              \/ id_token.nonce # session.nonce)
        \/ i = 7 /\ no_hash
        \/ i = 8 /\ (no_token \/ id_token.alg # "RS256")
        \/ i = 9 /\ (no_hash \/ Unwrap(id_token.claims.at_hash)
                                  # HashOf(response.access_token))}

Earliest(S) == CHOOSE i \in S : \A j \in S : i <= j

\* Handler r has returned the error of step i, having run the checks up to
\* step i and no further.
StoppedAt(r, i) ==
  /\ req'[r].pc = "done"
  /\ Unwrap(req'[r].result).kind = ErrorOfStep[i]
  /\ IsPrefix(req'[r].steps, ChecksUpTo(i))
  /\ req'[r].steps[Len(req'[r].steps)] \in
       {ChecksOfStep[i][n] : n \in DOMAIN ChecksOfStep[i]}

\* C10. Every step of a callback returns the error of the earliest failing
\* validation step, whatever else fails too, and runs none after it: a
\* cookie without a session id ends the request before the store is
\* touched; an id with no record ends it at the consume; a state that
\* differs from the record's ends it before any code exchange is sent; and
\* an answer of the provider ends it at the earliest step that answer fails.
C10_EarliestFailingStep ==
  [][\A r \in Reqs :
       /\ (req[r].pc = "idle" /\ req'[r].pc # "idle") =>
            IF IsSome(req'[r].cookies)
                 /\ NoSessionCookie(Unwrap(req'[r].cookies))
              THEN /\ req'[r].pc = "done"
                   /\ Unwrap(req'[r].result).kind = ErrorOfStep[1]
                   /\ IsPrefix(req'[r].steps, ChecksUpTo(1))
                   /\ exchanges' = exchanges /\ store' = store
              ELSE req'[r].pc = "lock" /\ IsSome(req'[r].session_id)
       /\ (req[r].pc = "locked" /\ req'[r].pc # "locked") =>
            IF SessionId(r) \notin DOMAIN store
              THEN StoppedAt(r, 2) /\ exchanges' = exchanges
              ELSE req'[r].pc = "removed"
       /\ (req[r].pc = "removed" /\ req'[r].pc # "removed") =>
            IF req[r].state # Unwrap(req[r].session).csrf_token
              THEN StoppedAt(r, 3) /\ exchanges' = exchanges
              ELSE req'[r].pc = "exchange" /\ exchanges' # exchanges
       /\ (req[r].pc = "exchange" /\ req'[r].pc # "exchange"
             /\ IsSome(delivered')) =>
            LET failing == FailingSteps(Unwrap(delivered').exchange,
                                        Unwrap(req[r].session))
            IN /\ exchanges' = exchanges
               /\ IF failing # {}
                    THEN StoppedAt(r, Earliest(failing))
                    ELSE /\ req'[r].pc = "done"
                         /\ Unwrap(req'[r].result).kind \notin
                              {ErrorOfStep[i] : i \in 1..9}
                         /\ IsPrefix(ChecksUpTo(9), req'[r].steps)]_vars

\* C11. The write guard is held only between its acquisition and the end of
\* the statement of lines 166-169: a callback whose code exchange is pending
\* does not hold it, so during the exchange the lock is free or held by
\* another callback that is at its own lookup, and a handler waiting at
\* line 166 (or a room request at line 127) can take the lock when it is
\* free.
C11_NoLockAcrossExchange ==
  /\ \A r \in Reqs :
       /\ lock = Some(r) => req[r].pc = "locked"
       /\ req[r].pc \in {"removed", "exchange", "done"} => lock # Some(r)
  /\ \A r, q \in Reqs :
       (req[r].pc = "exchange" /\ req[q].pc = "lock" /\ lock = None) =>
         ENABLED CallbackLock(q)
  /\ ((\E r \in Reqs : req[r].pc = "exchange")
        /\ lock = None /\ created < MaxSessions) =>
       ENABLED (\E room \in RoomSamples : Room(room))

\* One callback's exchange is pending while another callback, which arrived
\* with a different cookie, has taken its record out of the store.
C11_Witness ==
  \E r, q \in Reqs :
    /\ r # q
    /\ req[r].pc = "exchange"
    /\ req[q].pc = "removed"
    /\ req[q].session_id # req[r].session_id
    /\ Cardinality(DOMAIN store) = 0
    /\ created = 2

\* The attempt `room` created under uuid u: its csrf token, nonce and PKCE
\* verifier are the draws made in the same request as the uuid.
AttemptOf(u) ==
  [csrf_token |-> CsrfToken(u[2]), nonce |-> Nonce(u[2]),
   pkce_verifier |-> PkceVerifier(u[2])]

\* C12. A callback that has returned the redirect carried the uuid of an
\* issued attempt, its state was that attempt's csrf token, and an exchange
\* was submitted with its code and that attempt's PKCE verifier; when it is
\* the callback that has just returned, the identity token it received
\* carried that attempt's nonce. So a callback with A's uuid and B's state,
\* or answered with a token carrying B's nonce, does not return the
\* redirect.
C12_BoundToOneAttempt ==
  \A r \in Reqs :
    (Done(r) /\ Kind(r) = "Redirect") =>
      LET attempt == AttemptOf(SessionId(r)) IN
      /\ Issued(SessionId(r))
      /\ req[r].state = attempt.csrf_token
      /\ BagIn([code |-> req[r].code,
                pkce_verifier |-> attempt.pkce_verifier], exchanges)
      /\ Unwrap(req[r].session).pkce_verifier = attempt.pkce_verifier
      /\ (IsSome(delivered) /\ Got.to = r) =>
           GotIdToken.nonce = attempt.nonce

\* A is consumed by a callback that carried A's state and was answered with
\* a valid token carrying B's nonce, B still pending: InvalidIdTokenNonce.
C12_Witness ==
  /\ IsSome(delivered)
  /\ SessionId(Got.to) = Uuid(1)
  /\ Uuid(2) \in DOMAIN store
  /\ req[Got.to].state = CsrfToken(1)
  /\ HasIdToken
  /\ GotIdToken.sig_valid
  /\ GotIdToken.alg = "RS256"
  /\ GotIdToken.nonce = Nonce(2)
  /\ GotClaims.at_hash = Some(HashOf(GotResponse.access_token))
  /\ Kind(Got.to) = "InvalidIdTokenNonce"

\* The number of code exchanges submitted with PKCE verifier v.
RECURSIVE SumCopies(_, _)
SumCopies(S, B) ==
  IF S = {} THEN 0
  ELSE LET e == CHOOSE x \in S : TRUE
       IN CopiesIn(e, B) + SumCopies(S \ {e}, B)

SubmittedWith(v, B) ==
  SumCopies({e \in BagToSet(B) : e.pkce_verifier = v}, B)

TimesRan(r, step) ==
  Cardinality({i \in DOMAIN req[r].steps : req[r].steps[i] = step})

\* C13. In every state no PKCE verifier has been submitted in more than one
\* code exchange and no callback request has attempted the exchange more
\* than once; the only step that submits an exchange is the one at which a
\* callback passes the state comparison, which submits exactly one, with
\* the verifier of the record it holds; the step at which the answer
\* arrives (a rejection included) submits none.
C13_VerifierSubmittedOnce ==
  [][/\ \A k \in 0..created' :
          SubmittedWith(PkceVerifier(k), exchanges') <= 1
     /\ \A r \in Reqs : TimesRan(r, "exchange")' <= 1
     /\ exchanges' # exchanges =>
          \E r \in Reqs :
            /\ req[r].pc = "removed" /\ req'[r].pc = "exchange"
            /\ exchanges' = exchanges (+) SetToBag({
                 [code |-> req[r].code,
                  pkce_verifier |-> Unwrap(req[r].session).pkce_verifier]})
     /\ \A r \in Reqs :
          (req[r].pc = "exchange" /\ req'[r].pc # "exchange") =>
            exchanges' = exchanges]_vars

\* Both attempts were exchanged, each once; one exchange was rejected, and a
\* later callback with the cookie of the rejected one found no record.
C13_Witness ==
  \E r, q \in Reqs :
    /\ r # q
    /\ Done(r) /\ Kind(r) = "InvalidCode"
    /\ SubmittedWith(Unwrap(req[r].session).pkce_verifier, exchanges) = 1
    /\ BagCardinality(exchanges) = 2
    /\ req[q].session_id = req[r].session_id /\ req[q].prior
    /\ Done(q) /\ Kind(q) = "InvalidSession"

\* Some callback in flight other than r holds the record stored under u.
HeldByOther(r, u) ==
  \E q \in Reqs \ {r} :
    req[q].session_id = Some(u) /\ IsSome(req[q].session)

\* C14. The step of `room` that hands out a cookie has put the record under
\* that cookie's uuid into the store. An issued uuid's record leaves the
\* store only in the lookup of a callback that carries the uuid and obtains
\* the record. So a callback carrying an issued uuid fails its lookup only
\* when the record is gone because a callback that carried the uuid before
\* it has returned or holds the record now.
C14_AbsentOnlyIfConsumed ==
  [][/\ \A c \in jar' \ jar :
          /\ c[2] \notin DOMAIN store
          /\ c[2] \in DOMAIN store'
     /\ \A u \in DOMAIN store \ DOMAIN store' :
          \E q \in Reqs :
            /\ req[q].pc = "locked" /\ SessionId(q) = u
            /\ req'[q].session = Some(store[u])
     /\ \A u \in DOMAIN flows' :
          u \in DOMAIN store' \/ u \in served'
            \/ \E q \in Reqs : req'[q].session_id = Some(u)
                                 /\ IsSome(req'[q].session)
     /\ \A r \in Reqs :
          (/\ req[r].pc = "locked" /\ req'[r].pc = "done"
           /\ Issued(SessionId(r))) =>
             /\ Unwrap(req'[r].result).kind = "InvalidSession"
             /\ SessionId(r) \notin DOMAIN store
             /\ SessionId(r) \in served \/ HeldByOther(r, SessionId(r))]_vars

\* A callback failed its lookup of an issued uuid while the callback that
\* obtained the record is still waiting for the provider.
C14_Witness ==
  \E r, q \in Reqs :
    /\ r # q
    /\ IsSome(req[r].session_id)
    /\ req[q].session_id = req[r].session_id
    /\ Issued(SessionId(r))
    /\ req[q].pc = "exchange"
    /\ Done(r) /\ Kind(r) = "InvalidSession" /\ Ran(r, "consume")
    /\ ~req[r].prior

\* Callback q is at its lookup of uuid u and this step is that lookup.
Consumes(q, u) ==
  /\ req[q].pc = "locked"
  /\ lock = Some(q)
  /\ SessionId(q) = u
  /\ req'[q].pc # "locked"

\* No callback carrying uuid u has done its lookup, now or before.
NeverLookedUp(u) ==
  /\ u \notin served
  /\ \A r \in Reqs :
       req[r].session_id = Some(u) => req[r].pc \in {"lock", "locked"}

\* C15. A record stays in the store, as it is, over every step that is not
\* the lookup of a callback carrying its uuid; the store loses at most one
\* record in a step and none in any other step; and the record of an
\* attempt for which no callback has done its lookup is in the store in
\* every state.
C15_AbandonedAttemptStays ==
  [][/\ \A u \in DOMAIN store :
          (~ \E q \in Reqs : Consumes(q, u)) =>
            (u \in DOMAIN store' /\ store'[u] = store[u])
     /\ Cardinality(DOMAIN store \ DOMAIN store') <= 1
     /\ (~ \E q \in Reqs : Consumes(q, SessionId(q))) =>
          Cardinality(DOMAIN store') >= Cardinality(DOMAIN store)
     /\ \A u \in DOMAIN flows' :
          NeverLookedUp(u)' => u \in DOMAIN store']_vars

\* The first attempt was never called back and is still stored, after the
\* second one was created, consumed and completed.
C15_Witness ==
  /\ Uuid(1) \in DOMAIN store
  /\ NeverLookedUp(Uuid(1))
  /\ Uuid(2) \in served
  /\ Uuid(2) \notin DOMAIN store
  /\ \E r \in Reqs :
       /\ Done(r) /\ Kind(r) = "Redirect"
       /\ SessionId(r) = Uuid(2)

\* C16. A step of `room` adds exactly one record, under a uuid that was
\* neither stored nor issued before, and leaves the records already stored
\* as they are. Every other step adds none, removes at most the record
\* under the uuid of the callback doing its lookup in that step, and leaves
\* the others as they are. A stored record's room, csrf token, nonce and
\* PKCE verifier are the ones it was created with.
C16_RecordsNeverMutated ==
  [][/\ \A u \in DOMAIN store \cap DOMAIN store' : store'[u] = store[u]
     /\ IF created' # created
          THEN /\ DOMAIN store \subseteq DOMAIN store'
               /\ Cardinality(DOMAIN store' \ DOMAIN store) = 1
               /\ \A u \in DOMAIN store' \ DOMAIN store :
                    /\ u \notin DOMAIN flows
                    /\ UuidToString(u) \in jar' \ jar
          ELSE /\ DOMAIN store' \subseteq DOMAIN store
               /\ \A u \in DOMAIN store \ DOMAIN store' :
                    /\ DOMAIN store \ DOMAIN store' = {u}
                    /\ \E q \in Reqs : Consumes(q, u)
     /\ \A u \in DOMAIN store' :
          store'[u] = [room |-> flows'[u],
                       csrf_token |-> AttemptOf(u).csrf_token,
                       nonce |-> AttemptOf(u).nonce,
                       pkce_verifier |-> AttemptOf(u).pkce_verifier]]_vars

\* The first record was taken by a callback that is past its lookup; the
\* second, created before that lookup or after it, is stored as created.
C16_Witness ==
  /\ Uuid(1) \notin DOMAIN store
  /\ Uuid(2) \in DOMAIN store
  /\ store[Uuid(2)].csrf_token = CsrfToken(2)
  /\ store[Uuid(2)].room = flows[Uuid(2)]
  /\ \E r \in Reqs :
       /\ req[r].session_id = Some(Uuid(1))
       /\ IsSome(req[r].session)
       /\ Unwrap(req[r].session).nonce = Nonce(1)

\* The outcomes C17 names: the redirect and the nine error kinds.
NamedOutcomes ==
  {"Redirect", "InvalidSession", "InvalidState", "InvalidCode",
   "MissingIdToken", "InvalidIdTokenNonce", "MissingAccessTokenHash",
   "UnsupportedSigningAlgorithm", "InvalidAccessToken",
   "InternalServerError"}

\* C17. Every callback request that has ended has ended in the redirect or
\* in one of the nine named errors; one that passed the whole validation
\* (it went on to resolve the identifier) and did not redirect has ended in
\* InternalServerError. Stated of the requests the handler's body ran for
\* (those that carried a Cookie header), which is the less it can say.
C17_ClosedOutcomes ==
  \A r \in Reqs :
    (Done(r) /\ Ran(r, "cookie")) =>
      /\ Kind(r) \in NamedOutcomes
      /\ (Ran(r, "uid") /\ Kind(r) # "Redirect") =>
           Kind(r) = "InternalServerError"

\* The flow for room "https://[" passed the whole validation, the token was
\* minted, and the handler panicked at join(..).unwrap().
C17_Panics ==
  \E r \in Reqs :
    /\ Done(r)
    /\ Kind(r) = "Panic"
    /\ Ran(r, "mint") /\ Ran(r, "join")
    /\ flows[SessionId(r)] = "https://["
    /\ req[r].state = CsrfToken(SessionId(r)[2])

====
